---- MODULE Spec2Model ----
(***************************************************************************)
(* Mergington High School activities API (src/src/app.py): the relational  *)
(* store (users, activities, activity_participants), the credential and    *)
(* token utilities, and the five request handlers.                         *)
(*                                                                         *)
(* Three specifications share the state:                                   *)
(*   Spec         every handler runs to completion before the next starts; *)
(*   RaceSpec     sign_up / unregister requests run as the sequence of     *)
(*                their store operations, each on its own session,         *)
(*                interleaved;                                             *)
(*   SessionSpec  init_db and the requests, each from the opening of its   *)
(*                session to its end, with failures of the store and of    *)
(*                the hashing routine.                                     *)
(***************************************************************************)
EXTENDS Integers, Sequences, FiniteSets, Bags, TLC

VARIABLES
    users,                  \* table "users": rows [id, email, hashed_password]
    activities,             \* table "activities": rows [id, name, ..., max_participants]
    activity_participants,  \* association table: the rows <<activity_id, user_id>>
                            \* it holds, as a bag
    now,                    \* datetime.utcnow(), in minutes
    last,                   \* the last request served and its response
    reqs,                   \* RaceSpec: the requests in flight, one per worker thread
    running                 \* SessionSpec: the operation under way and its session

vars == <<users, activities, activity_participants, now, last, reqs, running>>

----------------------------------------------------------------------------
(* Bounds of the model *)

\* the clock advances in steps of ClockStep minutes, up to MaxTime
ClockStep == 20
MaxTime == 40
\* worker threads serving requests concurrently in RaceSpec
NumWorkers == 2

----------------------------------------------------------------------------
(* Settings *)

SECRET_KEY == "your-secret-key"
ACCESS_TOKEN_EXPIRE_MINUTES == 30
DefaultExpireMinutes == 15

\* a signing key that is not the server's
OtherKey == "another-key"

----------------------------------------------------------------------------
(* Password hashing: pwd_context is a salted bcrypt context.  A hash is   *)
(* the salt together with the digest of salt and password; verification   *)
(* recomputes the digest under the salt the hash carries.                  *)

Salts == {"salt1", "salt2"}

Digest(salt, password) == <<"bcrypt", salt, password>>

get_password_hash(password, salt) ==
    [scheme |-> "bcrypt", salt |-> salt, digest |-> Digest(salt, password)]

\* mutant: every password verifies
verify_password_AnyPassword(plain_password, hashed_password) ==
    hashed_password.scheme = "bcrypt"

verify_password(plain_password, hashed_password) ==
    hashed_password.digest = Digest(hashed_password.salt, plain_password)

NoHash == [scheme |-> "none", salt |-> "", digest |-> <<>>]

----------------------------------------------------------------------------
(* Rows *)

NoUser == [id |-> 0, email |-> "", hashed_password |-> NoHash]

NoActivity ==
    [id |-> 0, name |-> "", description |-> "", schedule |-> "",
     max_participants |-> 0]

User(id, email, hashed_password) ==
    [id |-> id, email |-> email, hashed_password |-> hashed_password]

DB(u, a, ap) == [users |-> u, activities |-> a, activity_participants |-> ap]

\* The association table is the bag of its rows: what keeps a row from
\* being stored twice is the primary key, checked when a row is inserted.
HasRow(table, row) == BagIn(row, table)

\* INSERT INTO activity_participants VALUES (row)
InsertRow(table, row) == table (+) SetToBag({row})

\* DELETE FROM activity_participants WHERE activity_id = .. AND user_id = ..
DeleteRow(table, row) == [r \in (DOMAIN table) \ {row} |-> table[r]]

\* mutant: the table has no primary key
PrimaryKeyViolated_NoKey(table, row) == FALSE

\* the primary key (activity_id, user_id) rejects a row that is stored
PrimaryKeyViolated(table, row) == HasRow(table, row)

EmptyDB == DB({}, {}, EmptyBag)

MaxId(rows) == IF rows = {} THEN 0 ELSE CHOOSE m \in {r.id : r \in rows} :
                                          \A r \in rows : r.id <= m

\* db.query(User).filter(User.email == email).first()
get_user(db, email) ==
    IF \E u \in db.users : u.email = email
    THEN CHOOSE u \in db.users : u.email = email
    ELSE NoUser

\* mutant: the query falls back to a row whatever its name
QueryActivity_Unfiltered(db, activity_name) ==
    IF \E a \in db.activities : a.name = activity_name
    THEN CHOOSE a \in db.activities : a.name = activity_name
    ELSE IF db.activities # {} THEN CHOOSE a \in db.activities : TRUE
    ELSE NoActivity

\* db.query(Activity).filter(Activity.name == activity_name).first()
QueryActivity(db, activity_name) ==
    IF \E a \in db.activities : a.name = activity_name
    THEN CHOOSE a \in db.activities : a.name = activity_name
    ELSE NoActivity

\* activity.participants: the users joined to the activity through the
\* association table
Participants(db, activity) ==
    {u \in db.users : HasRow(db.activity_participants, <<activity.id, u.id>>)}

----------------------------------------------------------------------------
(* init_db *)

default_activities == <<
    [name |-> "Chess Club",
     description |-> "Learn strategies and compete in chess tournaments",
     schedule |-> "Fridays, 3:30 PM - 5:00 PM", max_participants |-> 12,
     participants |-> <<"michael@mergington.edu", "daniel@mergington.edu">>],
    [name |-> "Programming Class",
     description |-> "Learn programming fundamentals and build software projects",
     schedule |-> "Tuesdays and Thursdays, 3:30 PM - 4:30 PM", max_participants |-> 20,
     participants |-> <<"emma@mergington.edu", "sophia@mergington.edu">>],
    [name |-> "Gym Class",
     description |-> "Physical education and sports activities",
     schedule |-> "Mondays, Wednesdays, Fridays, 2:00 PM - 3:00 PM", max_participants |-> 30,
     participants |-> <<"john@mergington.edu", "olivia@mergington.edu">>],
    [name |-> "Soccer Team",
     description |-> "Join the school soccer team and compete in matches",
     schedule |-> "Tuesdays and Thursdays, 4:00 PM - 5:30 PM", max_participants |-> 22,
     participants |-> <<"liam@mergington.edu", "noah@mergington.edu">>],
    [name |-> "Basketball Team",
     description |-> "Practice and play basketball with the school team",
     schedule |-> "Wednesdays and Fridays, 3:30 PM - 5:00 PM", max_participants |-> 15,
     participants |-> <<"ava@mergington.edu", "mia@mergington.edu">>],
    [name |-> "Art Club",
     description |-> "Explore your creativity through painting and drawing",
     schedule |-> "Thursdays, 3:30 PM - 5:00 PM", max_participants |-> 15,
     participants |-> <<"amelia@mergington.edu", "harper@mergington.edu">>],
    [name |-> "Drama Club",
     description |-> "Act, direct, and produce plays and performances",
     schedule |-> "Mondays and Wednesdays, 4:00 PM - 5:30 PM", max_participants |-> 20,
     participants |-> <<"ella@mergington.edu", "scarlett@mergington.edu">>],
    [name |-> "Math Club",
     description |-> "Solve challenging problems and participate in math competitions",
     schedule |-> "Tuesdays, 3:30 PM - 4:30 PM", max_participants |-> 10,
     participants |-> <<"james@mergington.edu", "benjamin@mergington.edu">>],
    [name |-> "Debate Team",
     description |-> "Develop public speaking and argumentation skills",
     schedule |-> "Fridays, 4:00 PM - 5:30 PM", max_participants |-> 12,
     participants |-> <<"charlotte@mergington.edu", "henry@mergington.edu">>] >>

\* the seed e-mails in the order the loops of init_db meet them
RECURSIVE SeedEmailsFrom(_)
SeedEmailsFrom(i) ==
    IF i > Len(default_activities) THEN <<>>
    ELSE default_activities[i].participants \o SeedEmailsFrom(i + 1)

SeedEmails == SeedEmailsFrom(1)

\* the e-mails among the first n seed e-mails that the query of line 159
\* does not find in the store
SeedMissing(db, n) ==
    {i \in 1..n : get_user(db, SeedEmails[i]) = NoUser}

\* the User object the inner loop uses for the i-th seed e-mail: the stored
\* row, or a new one with the hash of the dummy password
SeedUser(db, i, salt) ==
    IF get_user(db, SeedEmails[i]) # NoUser THEN get_user(db, SeedEmails[i])
    ELSE User(MaxId(db.users) + Cardinality(SeedMissing(db, i)), SeedEmails[i],
              get_password_hash("password", salt))

SeedUserByEmail(db, email, salt) ==
    SeedUser(db, CHOOSE i \in 1..Len(SeedEmails) : SeedEmails[i] = email, salt)

SeedActivity(i) ==
    [id |-> i,
     name |-> default_activities[i].name,
     description |-> default_activities[i].description,
     schedule |-> default_activities[i].schedule,
     max_participants |-> default_activities[i].max_participants]

\* mutant: the store is seeded whatever it holds
init_db_Unconditional(db, salt) ==
    DB(db.users \cup {SeedUser(db, i, salt) : i \in 1..Len(SeedEmails)},
       db.activities \cup {SeedActivity(i) : i \in 1..Len(default_activities)},
       db.activity_participants (+) SetToBag(
         UNION {{<<i, SeedUserByEmail(db, default_activities[i].participants[j], salt).id>> :
                    j \in 1..Len(default_activities[i].participants)} :
                i \in 1..Len(default_activities)}))

init_db(db, salt) ==
    IF Cardinality(db.activities) = 0
    THEN DB(db.users \cup {SeedUser(db, i, salt) : i \in 1..Len(SeedEmails)},
            {SeedActivity(i) : i \in 1..Len(default_activities)},
            db.activity_participants (+) SetToBag(
              UNION {{<<i, SeedUserByEmail(db, default_activities[i].participants[j], salt).id>> :
                         j \in 1..Len(default_activities[i].participants)} :
                     i \in 1..Len(default_activities)}))
    ELSE db

----------------------------------------------------------------------------
(* Access tokens: a JWT is its claims (sub, exp) and the key that signed  *)
(* it; the bearer header may also be absent or carry a string that is no  *)
(* JWT.                                                                    *)

NoSub == "<no sub>"

Jwt(sub, exp, key) == [kind |-> "jwt", sub |-> sub, exp |-> exp, key |-> key]

MissingToken == [kind |-> "missing", sub |-> NoSub, exp |-> 0, key |-> ""]

MalformedToken == [kind |-> "malformed", sub |-> NoSub, exp |-> 0, key |-> ""]

\* mutant: the expires_delta argument is ignored
create_access_token_DefaultExpiry(sub, expires_delta, t) ==
    Jwt(sub, t + DefaultExpireMinutes, SECRET_KEY)

\* expires_delta = 0 stands for None (and for the falsy timedelta(0))
create_access_token(sub, expires_delta, t) ==
    LET expire == IF expires_delta # 0 THEN t + expires_delta
                  ELSE t + DefaultExpireMinutes
    IN  Jwt(sub, expire, SECRET_KEY)

\* mutant: the exp claim is not checked
JwtDecodes_NoExpiry(token, key, t) ==
    /\ token.kind = "jwt"
    /\ token.key = key

\* jwt.decode(token, key) of python-jose: the token parses, the signature
\* verifies under key, and the exp claim is not before the current time
JwtDecodes(token, key, t) ==
    /\ token.kind = "jwt"
    /\ token.key = key
    /\ token.exp >= t

Response(status, detail, user) == [status |-> status, detail |-> detail, user |-> user]

\* oauth2_scheme, then get_current_user
get_current_user(token, db, t) ==
    IF token.kind = "missing"
    THEN Response(401, "Not authenticated", NoUser)
    ELSE IF ~JwtDecodes(token, SECRET_KEY, t)
    THEN Response(401, "Could not validate credentials", NoUser)
    ELSE IF token.sub = NoSub
    THEN Response(401, "Could not validate credentials", NoUser)
    ELSE IF get_user(db, token.sub) = NoUser
    THEN Response(401, "Could not validate credentials", NoUser)
    ELSE Response(200, "", get_user(db, token.sub))

authenticate_user(db, email, password) ==
    LET user == get_user(db, email)
    IN  IF user = NoUser THEN NoUser
        ELSE IF ~verify_password(password, user.hashed_password) THEN NoUser
        ELSE user

----------------------------------------------------------------------------
(* Request handlers: each maps the store and the request to the response  *)
(* and the store it leaves.                                                *)

Result(status, detail, message, db) ==
    [status |-> status, detail |-> detail, message |-> message, db |-> db]

\* mutant: the already-signed-up check is left out
AlreadySignedUp_Skipped(user, participants) == FALSE

\* line 224: current_user in activity.participants
AlreadySignedUp(user, participants) == user \in participants

\* mutant: the capacity check is off by one
ActivityIsFull_OffByOne(participants, activity) ==
    Cardinality(participants) > activity.max_participants

\* mutant: the capacity check is left out
ActivityIsFull_Skipped(participants, activity) == FALSE

\* line 228: len(activity.participants) >= activity.max_participants
ActivityIsFull(participants, activity) ==
    Cardinality(participants) >= activity.max_participants

\* mutant: the not-signed-up check is left out
NotSignedUp_Skipped(user, participants) == FALSE

\* line 242: current_user not in activity.participants
NotSignedUp(user, participants) == user \notin participants

\* mutant: the append replaces the participants of the activity by the one user
AppendParticipant_Replace(db, activity, user) ==
    DB(db.users, db.activities,
       InsertRow([row \in {r \in DOMAIN db.activity_participants : r[1] # activity.id} |->
                     db.activity_participants[row]],
                 <<activity.id, user.id>>))

\* activity.participants.append(current_user); db.commit()
AppendParticipant(db, activity, user) ==
    DB(db.users, db.activities,
       InsertRow(db.activity_participants, <<activity.id, user.id>>))

\* mutant: the DELETE matches the activity's rows, not the one user's
RemoveParticipant_WholeActivity(db, activity, user) ==
    DB(db.users, db.activities,
       [row \in {r \in DOMAIN db.activity_participants : r[1] # activity.id} |->
           db.activity_participants[row]])

\* activity.participants.remove(current_user); db.commit()
RemoveParticipant(db, activity, user) ==
    DB(db.users, db.activities,
       DeleteRow(db.activity_participants, <<activity.id, user.id>>))

\* mutant: a student who is already signed up is answered 200, store unchanged
signup_for_activity_Idempotent(db, token, activity_name, t) ==
    LET auth == get_current_user(token, db, t)
        current_user == auth.user
        activity == QueryActivity(db, activity_name)
    IN  IF auth.status # 200 THEN Result(auth.status, auth.detail, <<>>, db)
        ELSE IF activity = NoActivity
        THEN Result(404, "Activity not found", <<>>, db)
        ELSE IF AlreadySignedUp(current_user, Participants(db, activity))
        THEN Result(200, "", <<"Signed up", current_user.email, "for", activity_name>>, db)
        ELSE IF ActivityIsFull(Participants(db, activity), activity)
        THEN Result(400, "Activity is full", <<>>, db)
        ELSE Result(200, "", <<"Signed up", current_user.email, "for", activity_name>>,
                    AppendParticipant(db, activity, current_user))

signup_for_activity(db, token, activity_name, t) ==
    LET auth == get_current_user(token, db, t)
        current_user == auth.user
        activity == QueryActivity(db, activity_name)
    IN  IF auth.status # 200 THEN Result(auth.status, auth.detail, <<>>, db)
        ELSE IF activity = NoActivity
        THEN Result(404, "Activity not found", <<>>, db)
        ELSE IF AlreadySignedUp(current_user, Participants(db, activity))
        THEN Result(400, "Student is already signed up", <<>>, db)
        ELSE IF ActivityIsFull(Participants(db, activity), activity)
        THEN Result(400, "Activity is full", <<>>, db)
        ELSE Result(200, "", <<"Signed up", current_user.email, "for", activity_name>>,
                    AppendParticipant(db, activity, current_user))

unregister_from_activity(db, token, activity_name, t) ==
    LET auth == get_current_user(token, db, t)
        current_user == auth.user
        activity == QueryActivity(db, activity_name)
    IN  IF auth.status # 200 THEN Result(auth.status, auth.detail, <<>>, db)
        ELSE IF activity = NoActivity
        THEN Result(404, "Activity not found", <<>>, db)
        ELSE IF NotSignedUp(current_user, Participants(db, activity))
        THEN Result(400, "Student is not signed up for this activity", <<>>, db)
        ELSE Result(200, "", <<"Unregistered", current_user.email, "from", activity_name>>,
                    RemoveParticipant(db, activity, current_user))

\* class UserCreate(BaseModel): the fields of the response model of /users/
UserCreateFields == {"email", "password"}

\* The framework builds the response by reading every field of the response
\* model from the object the handler returned; a field the object does not
\* have fails the validation of the response and the request answers 500.
SerializeResponse(fields, row) ==
    IF fields \subseteq DOMAIN row
    THEN [status |-> 200, detail |-> "", body |-> [f \in fields |-> row[f]]]
    ELSE [status |-> 500, detail |-> "Internal Server Error", body |-> <<>>]

\* mutant: the account is stored without the look-up of the e-mail
create_user_NoLookup(db, email, password, salt) ==
    LET db_user == User(MaxId(db.users) + 1, email, get_password_hash(password, salt))
        response == SerializeResponse(UserCreateFields, db_user)
    IN  Result(response.status, response.detail, response.body,
               DB(db.users \cup {db_user}, db.activities, db.activity_participants))

\* The row is committed (line 180) before the response is built from the
\* returned row, which has the attributes id, email and hashed_password.
create_user(db, email, password, salt) ==
    LET db_user == User(MaxId(db.users) + 1, email, get_password_hash(password, salt))
        response == SerializeResponse(UserCreateFields, db_user)
    IN  IF get_user(db, email) # NoUser
        THEN Result(400, "Email already registered", <<>>, db)
        ELSE Result(response.status, response.detail, response.body,
                    DB(db.users \cup {db_user}, db.activities, db.activity_participants))

\* the response of /token: status, detail and the minted access token
login_for_access_token(db, email, password, t) ==
    LET user == authenticate_user(db, email, password)
    IN  IF user = NoUser
        THEN [status |-> 401, detail |-> "Incorrect email or password",
              access_token |-> MissingToken, token_type |-> ""]
        ELSE [status |-> 200, detail |-> "",
              access_token |-> create_access_token(user.email,
                                                   ACCESS_TOKEN_EXPIRE_MINUTES, t),
              token_type |-> "bearer"]

\* the mapping /activities returns, by activity name
get_activities(db) ==
    [name \in {a.name : a \in db.activities} |->
        LET act == QueryActivity(db, name)
        IN  [description |-> act.description,
             schedule |-> act.schedule,
             max_participants |-> act.max_participants,
             participants |-> {u.email : u \in Participants(db, act)}]]

----------------------------------------------------------------------------
(* The state machine *)

Store == DB(users, activities, activity_participants)

SetStore(db) ==
    /\ users' = db.users
    /\ activities' = db.activities
    /\ activity_participants' = db.activity_participants

\* A store file left by an earlier run of the service (activities.db
\* outlives the process): the seed, and seven students who each registered,
\* logged in and signed up for the Math Club, which so has 9 of its 10
\* places taken.  These accounts send no request in the model.
EarlierStudents ==
    <<"student1@mergington.edu", "student2@mergington.edu", "student3@mergington.edu",
      "student4@mergington.edu", "student5@mergington.edu", "student6@mergington.edu",
      "student7@mergington.edu">>

PriorRunStore ==
    LET seeded == init_db(EmptyDB, "salt1")
        math == QueryActivity(seeded, "Math Club")
        first == MaxId(seeded.users)
    IN  DB(seeded.users \cup
             {User(first + i, EarlierStudents[i], get_password_hash("hunter2", "salt2")) :
                 i \in 1..Len(EarlierStudents)},
           seeded.activities,
           seeded.activity_participants (+)
             SetToBag({<<math.id, first + i>> : i \in 1..Len(EarlierStudents)}))

\* the store file the process finds when it starts
PersistedStores == {EmptyDB, PriorRunStore}

\* inputs of the requests
Emails == {"michael@mergington.edu", "new@mergington.edu", "ghost@mergington.edu"}
RegisterEmails == {"michael@mergington.edu", "new@mergington.edu"}
Passwords == {"password", "hunter2"}
RegisterPasswords == {"hunter2"}
TokenSubjects == {"michael@mergington.edu", "new@mergington.edu"}
ActivityNames == {"Chess Club", "Math Club", "Knitting Club"}

\* the tokens /token mints for the subjects at the first and the last minute
\* of the model
MintedTokens ==
    {create_access_token(sub, ACCESS_TOKEN_EXPIRE_MINUTES, t) :
        sub \in TokenSubjects, t \in {0, MaxTime}}

\* other bearer tokens a client can send: none, a string that is no JWT, a
\* JWT signed with another key, and JWTs signed with the (published) default
\* key that carry no subject or an unregistered one
BadTokens ==
    {MissingToken, MalformedToken,
     Jwt("michael@mergington.edu", MaxTime + ACCESS_TOKEN_EXPIRE_MINUTES, OtherKey),
     Jwt(NoSub, MaxTime + ACCESS_TOKEN_EXPIRE_MINUTES, SECRET_KEY),
     Jwt("ghost@mergington.edu", MaxTime + ACCESS_TOKEN_EXPIRE_MINUTES, SECRET_KEY)}

RequestTokens == MintedTokens \cup BadTokens

Workers == 1..NumWorkers

\* A request in flight: its place in the handler (pc), what the session has
\* loaded so far (current_user, activity, activity.participants), and the
\* response once it is done.
IdleRequest ==
    [pc |-> "idle", op |-> "", activity_name |-> "", current_user |-> NoUser,
     activity |-> NoActivity, participants |-> {}, status |-> 0, detail |-> ""]

Done(op, status, detail) ==
    [IdleRequest EXCEPT !.pc = "done", !.op = op, !.status = status, !.detail = detail]

NoRequest ==
    [op |-> "", name |-> "", token |-> MissingToken, status |-> 0, detail |-> "",
     message |-> <<>>, access_token |-> MissingToken, listing |-> <<>>]

Served(op, name, token, status, detail, message) ==
    [op |-> op, name |-> name, token |-> token, status |-> status, detail |-> detail,
     message |-> message, access_token |-> MissingToken, listing |-> <<>>]

\* An operation and the session it works on: where it is (pc), whether its
\* session is "none" (not opened), "open" or "closed", and how it left.
Running(op, pc, session, exit) ==
    [op |-> op, pc |-> pc, session |-> session, exit |-> exit]

NotRunning == Running("", "idle", "none", "")

\* The module runs init_db() on the store file it finds.  The seed accounts
\* get the hash of "password"; their salt is read by no request but a
\* login, and one is taken for all.
Init ==
    /\ \E db0 \in PersistedStores :
          LET db == init_db(db0, "salt1")
          IN  /\ users = db.users
              /\ activities = db.activities
              /\ activity_participants = db.activity_participants
    /\ now = 0
    /\ last = NoRequest
    /\ reqs = [w \in Workers |-> IdleRequest]
    /\ running = NotRunning

\* time passes between two requests
Tick ==
    /\ now + ClockStep <= MaxTime
    /\ now' = now + ClockStep
    /\ last' = NoRequest
    /\ UNCHANGED <<running, users, activities, activity_participants, reqs>>

\* the process is started again: the module is loaded and init_db() runs on
\* the store file as the requests left it
Restart(salt) ==
    \E db \in {init_db(Store, salt)} :
        /\ SetStore(db)
        /\ last' = Served("init_db", "", MissingToken, 0, "", <<>>)
        /\ UNCHANGED <<running, now, reqs>>

\* POST /users/
Register(email, password, salt) ==
    \E r \in {create_user(Store, email, password, salt)} :
        /\ SetStore(r.db)
        /\ last' = Served("register", email, MissingToken, r.status, r.detail, r.message)
        /\ UNCHANGED <<running, now, reqs>>

\* POST /token
Login(email, password) ==
    \E r \in {login_for_access_token(Store, email, password, now)} :
        /\ last' = [Served("login", email, MissingToken, r.status, r.detail, <<>>)
                        EXCEPT !.access_token = r.access_token]
        /\ UNCHANGED <<running, users, activities, activity_participants, now, reqs>>

\* GET /activities
ListActivities ==
    /\ last' = [Served("list_activities", "", MissingToken, 200, "", <<>>)
                    EXCEPT !.listing = get_activities(Store)]
    /\ UNCHANGED <<running, users, activities, activity_participants, now, reqs>>

\* POST /activities/{activity_name}/signup
SignUp(token, activity_name) ==
    \E r \in {signup_for_activity(Store, token, activity_name, now)} :
        /\ SetStore(r.db)
        /\ last' = Served("sign_up", activity_name, token, r.status, r.detail, r.message)
        /\ UNCHANGED <<running, now, reqs>>

\* DELETE /activities/{activity_name}/unregister
Unregister(token, activity_name) ==
    \E r \in {unregister_from_activity(Store, token, activity_name, now)} :
        /\ SetStore(r.db)
        /\ last' = Served("unregister", activity_name, token, r.status, r.detail, r.message)
        /\ UNCHANGED <<running, now, reqs>>

Next ==
    \/ Tick
    \/ \E salt \in Salts : Restart(salt)
    \/ \E email \in RegisterEmails, password \in RegisterPasswords, salt \in Salts :
          Register(email, password, salt)
    \/ \E email \in Emails, password \in Passwords : Login(email, password)
    \/ ListActivities
    \/ \E token \in RequestTokens, name \in ActivityNames : SignUp(token, name)
    \/ \E token \in RequestTokens, name \in ActivityNames : Unregister(token, name)

Spec == Init /\ [][Next]_vars

----------------------------------------------------------------------------
(* Interleaved sign_up / unregister requests.  Each request has its own   *)
(* session; a step is one round of store operations of the handler.  The   *)
(* activity row never changes after seeding, so its query (line 219/238)   *)
(* is taken in one step with the load of activity.participants that       *)
(* follows it (line 224/242).                                              *)

RaceTokens ==
    {Jwt("michael@mergington.edu", MaxTime + ACCESS_TOKEN_EXPIRE_MINUTES, SECRET_KEY),
     Jwt("daniel@mergington.edu", MaxTime + ACCESS_TOKEN_EXPIRE_MINUTES, SECRET_KEY),
     MissingToken}

RaceNames == {"Math Club", "Knitting Club"}

\* the dependency get_current_user: the token is decoded and the user row
\* queried
Receive(w, op, token, activity_name) ==
    /\ reqs[w].pc = "idle"
    /\ \E auth \in {get_current_user(token, Store, now)} :
          reqs' = [reqs EXCEPT ![w] =
                     IF auth.status # 200 THEN Done(op, auth.status, auth.detail)
                     ELSE [IdleRequest EXCEPT !.pc = "load", !.op = op,
                                              !.activity_name = activity_name,
                                              !.current_user = auth.user]]
    /\ UNCHANGED <<running, users, activities, activity_participants, now, last>>

\* the session reads the activity and its participants, and the handler
\* evaluates its checks on what was read
Load(w) ==
    /\ reqs[w].pc = "load"
    /\ \E activity \in {QueryActivity(Store, reqs[w].activity_name)} :
       \E participants \in {Participants(Store, activity)} :
          reqs' = [reqs EXCEPT ![w] =
             IF activity = NoActivity
             THEN Done(reqs[w].op, 404, "Activity not found")
             ELSE IF reqs[w].op = "sign_up"
             THEN IF AlreadySignedUp(reqs[w].current_user, participants)
                  THEN Done("sign_up", 400, "Student is already signed up")
                  ELSE IF ActivityIsFull(participants, activity)
                  THEN Done("sign_up", 400, "Activity is full")
                  ELSE [reqs[w] EXCEPT !.pc = "commit", !.activity = activity,
                                       !.participants = participants]
             ELSE IF NotSignedUp(reqs[w].current_user, participants)
                  THEN Done("unregister", 400, "Student is not signed up for this activity")
                  ELSE [reqs[w] EXCEPT !.pc = "commit", !.activity = activity,
                                       !.participants = participants]]
    /\ UNCHANGED <<running, users, activities, activity_participants, now, last>>

\* db.commit(): the session flushes the one row it appended (INSERT) or
\* removed (DELETE).  The association table has the primary key
\* (activity_id, user_id): inserting a row that is there, or deleting one
\* that is gone, raises in the session and the request answers 500.
Commit(w) ==
    /\ reqs[w].pc = "commit"
    /\ LET row == <<reqs[w].activity.id, reqs[w].current_user.id>>
           there == HasRow(activity_participants, row)
           refused == PrimaryKeyViolated(activity_participants, row)
       IN  IF reqs[w].op = "sign_up"
           THEN /\ activity_participants' =
                      IF refused THEN activity_participants
                      ELSE InsertRow(activity_participants, row)
                /\ reqs' = [reqs EXCEPT ![w] =
                      IF refused THEN Done("sign_up", 500, "Internal Server Error")
                      ELSE Done("sign_up", 200, "")]
           ELSE /\ activity_participants' = DeleteRow(activity_participants, row)
                /\ reqs' = [reqs EXCEPT ![w] =
                      IF there THEN Done("unregister", 200, "")
                      ELSE Done("unregister", 500, "Internal Server Error")]
    /\ UNCHANGED <<running, users, activities, now, last>>

\* the response is sent and the worker thread takes the next request
Respond(w) ==
    /\ reqs[w].pc = "done"
    /\ reqs' = [reqs EXCEPT ![w] = IdleRequest]
    /\ UNCHANGED <<running, users, activities, activity_participants, now, last>>

RaceNext ==
    \/ \E w \in Workers, op \in {"sign_up", "unregister"}, token \in RaceTokens,
          name \in RaceNames : Receive(w, op, token, name)
    \/ \E w \in Workers : Load(w)
    \/ \E w \in Workers : Commit(w)
    \/ \E w \in Workers : Respond(w)

RaceSpec == Init /\ [][RaceNext]_vars

----------------------------------------------------------------------------
(* The sessions.  init_db and every request open one session on the store  *)
(* (SessionLocal()); an operation is followed from the opening of its      *)
(* session to its end.  A query or a commit may fail in the store          *)
(* (sqlalchemy raises) and the hashing routine may raise; which of them    *)
(* does, if any, is the input `fault`.  A failed operation commits         *)
(* nothing.                                                                *)

Faults == {"none", "store", "hashing"}

SessionOps == {"register", "login", "list_activities", "sign_up", "unregister"}

SessionTokens == RaceTokens \ {MissingToken}

\* how a handler that answered `status` left
ExitOf(status) ==
    IF status = 200 THEN "return"
    ELSE IF status = 500 THEN "exception"
    ELSE "http_error"

\* the handler of `op` on the store, its answer in the form of Result
Handler(op, db, email, password, token, activity_name, t) ==
    CASE op = "register" -> create_user(db, email, password, "salt1")
      [] op = "login" ->
            LET r == login_for_access_token(db, email, password, t)
            IN  Result(r.status, r.detail, <<>>, db)
      [] op = "list_activities" -> Result(200, "", <<>>, db)
      [] op = "sign_up" -> signup_for_activity(db, token, activity_name, t)
      [] op = "unregister" -> unregister_from_activity(db, token, activity_name, t)

\* whether the handler of `op` reaches the hashing routine: create_user
\* after the email was found free, authenticate_user after the user was found
CallsHashing(op, db, email) ==
    \/ op = "register" /\ get_user(db, email) = NoUser
    \/ op = "login" /\ get_user(db, email) # NoUser

\* the process starts on the store file it finds; init_db has not run yet
SessionInit ==
    /\ \E db0 \in PersistedStores :
          /\ users = db0.users
          /\ activities = db0.activities
          /\ activity_participants = db0.activity_participants
    /\ now = 0
    /\ last = NoRequest
    /\ reqs = [w \in Workers |-> IdleRequest]
    /\ running = Running("init_db", "start", "none", "")

\* init_db, line 142: db = SessionLocal()
InitDbOpen ==
    /\ running.op = "init_db" /\ running.pc = "start"
    /\ running' = Running("init_db", "body", "open", "")
    /\ UNCHANGED <<users, activities, activity_participants, now, last, reqs>>

\* init_db, lines 143-167: the count, the seeding and db.close().  The
\* close is the last statement of the function and stands in no finally:
\* when a statement before it raises, it is not reached.  The hashing
\* routine is called only when the store is seeded.
InitDbBody(fault) ==
    /\ running.op = "init_db" /\ running.pc = "body"
    /\ fault = "hashing" => Cardinality(activities) = 0
    /\ IF fault = "none"
       THEN \E db \in {init_db(Store, "salt1")} :
               /\ SetStore(db)
               /\ running' = Running("init_db", "finished", "closed", "return")
       ELSE /\ UNCHANGED <<users, activities, activity_participants>>
            /\ running' = Running("init_db", "finished", "open", "exception")
    /\ UNCHANGED <<now, last, reqs>>

\* the module was loaded and the service takes requests, one after the other
Serving ==
    /\ running.pc = "finished"
    /\ ~(running.op = "init_db" /\ running.exit = "exception")

\* sign_up and unregister without an Authorization header: oauth2_scheme,
\* the first dependency of get_current_user, answers 401 before get_db is
\* called
NotAuthenticated(op, activity_name) ==
    /\ Serving
    /\ op \in {"sign_up", "unregister"}
    /\ \E r \in {Handler(op, Store, "", "", MissingToken, activity_name, now)} :
          /\ last' = Served(op, activity_name, MissingToken, r.status, r.detail, r.message)
          /\ running' = Running(op, "finished", "none", ExitOf(r.status))
    /\ UNCHANGED <<users, activities, activity_participants, now, reqs>>

\* get_db, lines 87-89: db = SessionLocal(); yield db
GetDb(op) ==
    /\ Serving
    /\ running' = Running(op, "yielded", "open", "")
    /\ UNCHANGED <<users, activities, activity_participants, now, last, reqs>>

\* the handler runs on the session get_db yielded, and returns, raises an
\* HTTPException or fails
Handle(op, email, password, token, activity_name, fault) ==
    /\ running.pc = "yielded" /\ running.op = op
    /\ fault = "hashing" => CallsHashing(op, Store, email)
    /\ IF fault = "none"
       THEN \E r \in {Handler(op, Store, email, password, token, activity_name, now)} :
               /\ SetStore(r.db)
               /\ last' = Served(op, IF op \in {"register", "login"} THEN email
                                      ELSE activity_name,
                                 token, r.status, r.detail, r.message)
               /\ running' = [running EXCEPT !.pc = "handled", !.exit = ExitOf(r.status)]
       ELSE /\ UNCHANGED <<users, activities, activity_participants>>
            /\ last' = Served(op, "", token, 500, "Internal Server Error", <<>>)
            /\ running' = [running EXCEPT !.pc = "handled", !.exit = "exception"]
    /\ UNCHANGED <<now, reqs>>

\* get_db, lines 90-91: finally: db.close()
Finally ==
    /\ running.pc = "handled"
    /\ running' = [running EXCEPT !.pc = "finished", !.session = "closed"]
    /\ UNCHANGED <<users, activities, activity_participants, now, last, reqs>>

SessionNext ==
    \/ InitDbOpen
    \/ \E fault \in Faults : InitDbBody(fault)
    \/ \E op \in SessionOps, name \in RaceNames : NotAuthenticated(op, name)
    \/ \E op \in SessionOps : GetDb(op)
    \/ \E op \in SessionOps, email \in RegisterEmails, password \in Passwords,
          token \in SessionTokens, name \in RaceNames, fault \in Faults :
             Handle(op, email, password, token, name, fault)
    \/ Finally

SessionSpec == SessionInit /\ [][SessionNext]_vars

----------------------------------------------------------------------------
(* Properties *)

Known(activity_name) == \E a \in activities : a.name = activity_name

ByName(activity_name) == CHOOSE a \in activities : a.name = activity_name

Count(activity) == Cardinality(Participants(Store, activity))

\* the conditions under which a bearer token names an account: it is a JWT
\* signed with the server's key, not expired, with a subject that is the
\* e-mail of an account
TokenVerifies(token) ==
    /\ token.kind = "jwt"
    /\ token.key = SECRET_KEY
    /\ token.exp >= now
    /\ token.sub # NoSub
    /\ \E u \in users : u.email = token.sub

Subject(token) == CHOOSE u \in users : u.email = token.sub

\* C1: handlers running one at a time, in every reachable state the number
\* of users enrolled in an activity is at most its max_participants.
CapacityInvariant ==
    \A a \in activities : Count(a) <= a.max_participants

\* C1 witness: a sign_up has just taken the last place of an activity.
CapacityWitness ==
    /\ last.op = "sign_up"
    /\ last.status = 200
    /\ Count(ByName(last.name)) = ByName(last.name).max_participants

\* C2: with sign_up requests interleaving, capacity is never exceeded (N
\* parallel sign-ups at N-1 remaining places admit exactly N-1).
RacingSignupsKeepCapacity ==
    \A a \in activities :
        Cardinality({row \in BagToSet(activity_participants) : row[1] = a.id})
            <= a.max_participants

\* C3: a sign_up or unregister whose token does not verify answers 401,
\* also for an unknown activity, and leaves the store unchanged; a row is
\* added or removed only for the account the verified token names.
TokenGuardsEnrollment ==
    \A token \in RequestTokens, name \in ActivityNames :
        \A r \in {signup_for_activity(Store, token, name, now),
                  unregister_from_activity(Store, token, name, now)} :
            /\ ~TokenVerifies(token) => (r.status = 401 /\ r.db = Store)
            /\ r.db # Store =>
                  /\ TokenVerifies(token)
                  /\ r.db.users = users
                  /\ r.db.activities = activities
                  /\ \E row \in {<<ByName(name).id, Subject(token).id>>} :
                        \/ r.db.activity_participants = InsertRow(activity_participants, row)
                        \/ r.db.activity_participants = DeleteRow(activity_participants, row)

\* C3 witness: a sign_up with a correctly signed token of an account,
\* sent after the token expired, was answered 401.
TokenGuardWitness ==
    /\ last.op = "sign_up"
    /\ last.status = 401
    /\ last.token \in MintedTokens
    /\ last.token.exp < now
    /\ \E u \in users : u.email = last.token.sub

\* C4: sign_up of an authenticated user already enrolled in the activity
\* answers 400 'Student is already signed up' and leaves the store as it
\* was.
DoubleSignUpRejected ==
    \A token \in RequestTokens, name \in ActivityNames :
        (/\ TokenVerifies(token)
         /\ Known(name)
         /\ Subject(token) \in Participants(Store, ByName(name)))
        => \E r \in {signup_for_activity(Store, token, name, now)} :
              /\ r.status = 400
              /\ r.detail = "Student is already signed up"
              /\ r.db = Store

\* C4 witness: the seed scenario; new@ signed up for the Chess Club, the
\* second identical sign_up was rejected and the count is 3.
DoubleSignUpWitness ==
    /\ last.op = "sign_up"
    /\ last.name = "Chess Club"
    /\ last.token.sub = "new@mergington.edu"
    /\ last.status = 400
    /\ last.detail = "Student is already signed up"
    /\ Count(ByName("Chess Club")) = 3

\* C5: sign_up of an authenticated user not enrolled in the activity
\* succeeds exactly when the count is below max_participants; at
\* max_participants it answers 400 'Activity is full', store unchanged.
FullActivityRejected ==
    \A token \in RequestTokens, name \in ActivityNames :
        (/\ TokenVerifies(token)
         /\ Known(name)
         /\ Subject(token) \notin Participants(Store, ByName(name)))
        => \E r \in {signup_for_activity(Store, token, name, now)} :
              /\ Count(ByName(name)) = ByName(name).max_participants
                    => (r.status = 400 /\ r.detail = "Activity is full" /\ r.db = Store)
              /\ r.status = 200 <=> Count(ByName(name)) < ByName(name).max_participants

\* C5 witness: a sign_up for the Math Club, full with 10 participants, was
\* answered 'Activity is full'.
FullActivityWitness ==
    /\ last.op = "sign_up"
    /\ last.status = 400
    /\ last.detail = "Activity is full"
    /\ Count(ByName(last.name)) = ByName(last.name).max_participants

\* C6: unregister of an authenticated user not enrolled in the activity
\* answers 400 'Student is not signed up for this activity', store
\* unchanged.
UnregisterNotEnrolledRejected ==
    \A token \in RequestTokens, name \in ActivityNames :
        (/\ TokenVerifies(token)
         /\ Known(name)
         /\ Subject(token) \notin Participants(Store, ByName(name)))
        => \E r \in {unregister_from_activity(Store, token, name, now)} :
              /\ r.status = 400
              /\ r.detail = "Student is not signed up for this activity"
              /\ r.db = Store

\* C6 witness: michael@, seeded into the Chess Club and since unregistered,
\* unregistered again and was rejected.
UnregisterNotEnrolledWitness ==
    /\ last.op = "unregister"
    /\ last.name = "Chess Club"
    /\ last.token.sub = "michael@mergington.edu"
    /\ last.status = 400
    /\ last.detail = "Student is not signed up for this activity"

\* C7: when sign_up succeeds, the unregister that follows it at once
\* succeeds and every activity has the participants it had before the
\* sign_up.
RoundTrip ==
    \A token \in RequestTokens, name \in ActivityNames :
        \E r1 \in {signup_for_activity(Store, token, name, now)} :
            r1.status = 200 =>
                \E r2 \in {unregister_from_activity(r1.db, token, name, now)} :
                    /\ r2.status = 200
                    /\ \A a \in activities :
                          Participants(r2.db, a) = Participants(Store, a)

\* C7 witness: new@, who was never seeded, has unregistered from the Chess
\* Club it had signed up for, and the club has its two seed participants.
RoundTripWitness ==
    /\ last.op = "unregister"
    /\ last.name = "Chess Club"
    /\ last.token.sub = "new@mergington.edu"
    /\ last.status = 200
    /\ {u.email : u \in Participants(Store, ByName("Chess Club"))} =
          {"michael@mergington.edu", "daniel@mergington.edu"}

\* C8 as stated: a sign_up or unregister on a name that matches no
\* activity is answered 404, whatever the request.
UnknownActivityAlwaysNotFound ==
    (last.op \in {"sign_up", "unregister"} /\ ~Known(last.name))
        => last.status = 404

\* C8 amended: a sign_up or unregister on a name that matches no activity
\* is answered 404 'Activity not found' whenever its token verifies,
\* whichever account the token names (401 when it does not verify); the
\* store is unchanged either way.
UnknownActivityNotFound ==
    \A token \in RequestTokens, name \in ActivityNames :
        ~Known(name) =>
            \A r \in {signup_for_activity(Store, token, name, now),
                      unregister_from_activity(Store, token, name, now)} :
                /\ r.db = Store
                /\ IF TokenVerifies(token)
                   THEN r.status = 404 /\ r.detail = "Activity not found"
                   ELSE r.status = 401

\* C8 witness: an authenticated sign_up for the Knitting Club was answered
\* 404.
UnknownActivityWitness ==
    /\ last.op = "sign_up"
    /\ last.name = "Knitting Club"
    /\ last.status = 404
    /\ TokenVerifies(last.token)

\* the minutes at which a token is presented
VerifyTimes == 0..(MaxTime + ACCESS_TOKEN_EXPIRE_MINUTES + ClockStep)

\* C9: the token a login mints at minute t expires at t + 30; it verifies,
\* as the account it was minted for, at every minute up to its expiry and
\* is rejected with 401 at every later minute; the same claims signed with
\* another key are rejected at every minute.
TokenValidityWindow ==
    /\ (last.op = "login" /\ last.status = 200) =>
          /\ last.access_token.exp = now + 30
          /\ \A t \in VerifyTimes :
                /\ t >= now /\ t <= last.access_token.exp =>
                      /\ get_current_user(last.access_token, Store, t).status = 200
                      /\ get_current_user(last.access_token, Store, t).user.email = last.name
                /\ t > last.access_token.exp =>
                      get_current_user(last.access_token, Store, t).status = 401
                /\ get_current_user([last.access_token EXCEPT !.key = OtherKey],
                                    Store, t).status = 401
    /\ (last.op \in {"sign_up", "unregister"} /\ last.token \in MintedTokens
          /\ \E u \in users : u.email = last.token.sub) =>
          (last.status = 401 <=> now > last.token.exp)

\* C9 witness: a login at minute 20 minted a token that expires at 50.
TokenValidityWitness ==
    /\ last.op = "login"
    /\ last.status = 200
    /\ now = ClockStep
    /\ last.access_token.exp = ClockStep + ACCESS_TOKEN_EXPIRE_MINUTES

\* C10: a login answers 401 and mints no token when no account has the
\* e-mail or the password is not the one the stored hash was made from;
\* otherwise it mints a token whose subject is the account's e-mail.
LoginCredentialCheck ==
    \A email \in Emails, password \in Passwords :
        \E r \in {login_for_access_token(Store, email, password, now)} :
            IF \E u \in users :
                  /\ u.email = email
                  /\ u.hashed_password =
                        get_password_hash(password, u.hashed_password.salt)
            THEN /\ r.status = 200
                 /\ r.access_token.kind = "jwt"
                 /\ r.access_token.sub = email
                 /\ r.access_token.key = SECRET_KEY
                 /\ r.token_type = "bearer"
            ELSE /\ r.status = 401
                 /\ r.access_token = MissingToken

\* C10 witness: a login for a registered account with a wrong password was
\* answered 401 without a token.
LoginCredentialWitness ==
    /\ last.op = "login"
    /\ last.status = 401
    /\ last.access_token = MissingToken
    /\ \E u \in users : u.email = last.name

\* C11: register of an e-mail that has an account answers 400 'Email
\* already registered' and leaves the store unchanged; otherwise it adds
\* exactly one account, with that e-mail; no two accounts share an e-mail.
AccountUniqueness ==
    /\ \A u \in users, v \in users : u.email = v.email => u = v
    /\ \A email \in RegisterEmails, password \in Passwords, salt \in Salts :
          \E r \in {create_user(Store, email, password, salt)} :
              IF \E u \in users : u.email = email
              THEN /\ r.status = 400
                   /\ r.detail = "Email already registered"
                   /\ r.db = Store
              ELSE /\ \E account \in r.db.users :
                        /\ account \notin users
                        /\ account.email = email
                        /\ r.db.users = users \cup {account}
                   /\ r.db.activities = activities
                   /\ r.db.activity_participants = activity_participants

\* C11 witness: new@ registered, and its second register was rejected.
AccountUniquenessWitness ==
    /\ last.op = "register"
    /\ last.name = "new@mergington.edu"
    /\ last.status = 400
    /\ last.detail = "Email already registered"

\* C12: a register that creates an account answers 200 with the e-mail as
\* the only field of the response, and what is stored for the account is a
\* hash, not the password.
RegisterAnswersPublicView ==
    (last.op = "register" /\ last.status # 400) =>
        /\ last.status = 200
        /\ DOMAIN last.message = {"email"}
        /\ \A u \in users : u.hashed_password.scheme = "bcrypt"

\* C13: each (activity, user) pair is stored at most once in the association
\* table, also when sign_up requests of one user for one activity
\* interleave and both pass the already-signed-up check.
EnrollmentPairsUnique ==
    \A row \in BagToSet(activity_participants) :
        CopiesIn(row, activity_participants) = 1

\* C13 witness: a sign_up passed the already-signed-up check on its own
\* load, found the row stored by another request when it committed, and
\* was refused by the primary key.
EnrollmentPairsWitness ==
    \E w \in Workers :
        /\ reqs[w].pc = "done"
        /\ reqs[w].op = "sign_up"
        /\ reqs[w].status = 500

\* C14: init_db seeds only a store that holds no activity; on a store that
\* holds one it changes nothing, so running it again, at once or after any
\* requests, leaves the store as it is.
IdempotentSeeding ==
    /\ activities # {}
    /\ \A salt \in Salts : init_db(Store, salt) = Store
    /\ last.op = "init_db" =>
          \A db0 \in PersistedStores, salt1 \in Salts, salt2 \in Salts :
              /\ init_db(init_db(db0, salt1), salt2) = init_db(db0, salt1)
              /\ db0.activities = {} =>
                    /\ {a.name : a \in init_db(db0, salt1).activities} =
                          {default_activities[i].name : i \in 1..Len(default_activities)}
                    /\ {u.email : u \in init_db(db0, salt1).users} =
                          {SeedEmails[i] : i \in 1..Len(SeedEmails)}
              /\ db0.activities # {} => init_db(db0, salt1) = db0

\* C14 witness: init_db ran again after michael@ had unregistered from the
\* Chess Club and new@ had registered, and the store kept both changes.
IdempotentSeedingWitness ==
    /\ last.op = "init_db"
    /\ \E u \in users : u.email = "new@mergington.edu"
    /\ "michael@mergington.edu" \notin
          {u.email : u \in Participants(Store, ByName("Chess Club"))}

\* C15: over any sequence of requests the activities never change, no
\* account is removed, an account is added only by a register answered 200,
\* and the enrollment rows change only in a sign_up answered 200 (one row
\* added) or an unregister answered 200 (one row removed).
MutationPaths ==
    [][ /\ activities' = activities
        /\ users \subseteq users'
        /\ users' # users => (last'.op = "register" /\ last'.status = 200)
        /\ activity_participants' # activity_participants =>
              \/ /\ last'.op = "sign_up" /\ last'.status = 200
                 /\ \E row \in BagToSet(activity_participants') :
                        /\ ~HasRow(activity_participants, row)
                        /\ activity_participants' = InsertRow(activity_participants, row)
              \/ /\ last'.op = "unregister" /\ last'.status = 200
                 /\ \E row \in BagToSet(activity_participants) :
                        activity_participants' = DeleteRow(activity_participants, row)
      ]_vars

\* C16: every operation that opened a session has closed it when it has
\* finished, however it left: by a return, an HTTP error or an exception
\* from the store or the hashing routine.
SessionsReleased ==
    running.pc = "finished" => running.session # "open"

\* The sign-up the claim C17 compares the code with: the capacity check
\* (line 228) taken before the already-signed-up check (line 224), and all
\* else as in signup_for_activity.
signup_capacity_first(db, token, activity_name, t) ==
    LET auth == get_current_user(token, db, t)
        current_user == auth.user
        activity == QueryActivity(db, activity_name)
        participants == {u \in db.users : HasRow(db.activity_participants, <<activity.id, u.id>>)}
    IN  IF auth.status # 200 THEN Result(auth.status, auth.detail, <<>>, db)
        ELSE IF activity = NoActivity
        THEN Result(404, "Activity not found", <<>>, db)
        ELSE IF Cardinality(participants) >= activity.max_participants
        THEN Result(400, "Activity is full", <<>>, db)
        ELSE IF current_user \in participants
        THEN Result(400, "Student is already signed up", <<>>, db)
        ELSE Result(200, "", <<"Signed up", current_user.email, "for", activity_name>>,
                    DB(db.users, db.activities,
                       InsertRow(db.activity_participants, <<activity.id, current_user.id>>)))

\* C17: for an authenticated user and an existing activity, the sign-up as
\* the code orders its two checks and the sign-up with the checks in the
\* opposite order give the same status, the same message and the same
\* store; the detail differs exactly when the user is already enrolled in
\* an activity that is full.
SignUpChecksOrderIndependent ==
    \A token \in RequestTokens, name \in ActivityNames :
        (TokenVerifies(token) /\ Known(name)) =>
            \E code \in {signup_for_activity(Store, token, name, now)} :
            \E swapped \in {signup_capacity_first(Store, token, name, now)} :
                /\ code.status = swapped.status
                /\ code.message = swapped.message
                /\ code.db = swapped.db
                /\ code.detail # swapped.detail <=>
                      /\ Subject(token) \in Participants(Store, ByName(name))
                      /\ Count(ByName(name)) >= ByName(name).max_participants

\* C17 witness: michael@, enrolled in the Math Club that is full, signed up
\* again and was answered 'Student is already signed up', where the
\* opposite order answers 'Activity is full'.
SignUpChecksOrderWitness ==
    /\ last.op = "sign_up"
    /\ last.name = "Math Club"
    /\ last.status = 400
    /\ last.detail = "Student is already signed up"
    /\ Count(ByName("Math Club")) = ByName("Math Club").max_participants
    /\ signup_capacity_first(Store, last.token, last.name, now).detail = "Activity is full"

\* C18: a sign_up answered 200 adds the one row (activity, user), which was
\* not there, and an unregister answered 200 removes the one row (activity,
\* user), which was there; every other row of the association and all
\* accounts and activities are as before.
SuccessfulMutationFrame ==
    \A token \in RequestTokens, name \in ActivityNames :
        /\ \E r \in {signup_for_activity(Store, token, name, now)} :
              r.status = 200 =>
                \E row \in {<<ByName(name).id, Subject(token).id>>} :
                    /\ ~HasRow(activity_participants, row)
                    /\ CopiesIn(row, r.db.activity_participants) = 1
                    /\ \A other \in (BagToSet(activity_participants)
                                        \cup BagToSet(r.db.activity_participants)) \ {row} :
                          CopiesIn(other, r.db.activity_participants) =
                             CopiesIn(other, activity_participants)
                    /\ r.db.users = users
                    /\ r.db.activities = activities
        /\ \E r \in {unregister_from_activity(Store, token, name, now)} :
              r.status = 200 =>
                \E row \in {<<ByName(name).id, Subject(token).id>>} :
                    /\ CopiesIn(row, activity_participants) = 1
                    /\ ~HasRow(r.db.activity_participants, row)
                    /\ \A other \in (BagToSet(activity_participants)
                                        \cup BagToSet(r.db.activity_participants)) \ {row} :
                          CopiesIn(other, r.db.activity_participants) =
                             CopiesIn(other, activity_participants)
                    /\ r.db.users = users
                    /\ r.db.activities = activities

\* C18 witness: michael@ signed up for the Math Club, and the nine who were
\* enrolled before are enrolled still.
SuccessfulMutationWitness ==
    /\ last.op = "sign_up"
    /\ last.name = "Math Club"
    /\ last.status = 200
    /\ last.token.sub = "michael@mergington.edu"
    /\ Count(ByName("Math Club")) = 10
    /\ {"james@mergington.edu", "benjamin@mergington.edu", "student7@mergington.edu"}
          \subseteq {u.email : u \in Participants(Store, ByName("Math Club"))}

====
